---- MODULE Spec2Model ----
(***************************************************************************)
(* cachelib: the memoizing decorator CacheBase.__call__ over the           *)
(* MemoryCache backend, with the key and mode derivation it relies on.     *)
(*                                                                         *)
(* Python values are records [ty, n, s]: ty is the Python type, n the      *)
(* number of an int/bool (or the length of a bytes object made of zero     *)
(* bytes), s the text of a str.  Keyword arguments of a call are a         *)
(* sequence of [k, v] pairs in the order the caller wrote them; a stored   *)
(* dict is a function from names to values (dict equality ignores order). *)
(***************************************************************************)
EXTENDS Integers, Sequences, FiniteSets, TLC

VARIABLES
    data,     \* MemoryCache.data: key -> canonical cache object
    now,      \* what datetime.datetime.utcnow() returns, in seconds
    grace,    \* CacheBase.grace (None, or a number of seconds)
    binary,   \* CacheBase.binary
    last,     \* what the most recent step did (the tests' cm.log, the call and its result)
    returned, \* key -> what the invocation that stored the entry under it returned
    backend,  \* the class of the cache object: CacheBase or one of its subclasses
    calls     \* caller -> the invocation of the wrapper it is in the middle of

vars == <<data, now, grace, binary, last, returned, backend, calls>>

----------------------------------------------------------------------------
\* Python values

PyInt(n) == [ty |-> "int", n |-> n, s |-> ""]
PyStr(s) == [ty |-> "str", n |-> 0, s |-> s]
PyBool(b) == [ty |-> "bool", n |-> IF b THEN 1 ELSE 0, s |-> ""]
PyBytes(n) == [ty |-> "bytes", n |-> n, s |-> ""]
None == [ty |-> "NoneType", n |-> 0, s |-> ""]

DecDigit == <<"0", "1", "2", "3", "4", "5", "6", "7", "8", "9">>

RECURSIVE Decimal(_)
Decimal(n) ==
    IF n < 10 THEN DecDigit[n + 1]
    ELSE Decimal(n \div 10) \o DecDigit[(n % 10) + 1]

\* str(x)
Str(x) ==
    CASE x.ty = "int" -> Decimal(x.n)
      [] x.ty = "str" -> x.s
      [] x.ty = "bool" -> (IF x.n = 1 THEN "True" ELSE "False")
      [] OTHER -> "None"

\* bool(x): the truth value Python gives x in `if x` and `x and ...`
Truthy(x) ==
    CASE x.ty = "int" -> x.n # 0
      [] x.ty = "bool" -> x.n # 0
      [] x.ty = "str" -> x.s # ""
      [] x.ty = "bytes" -> x.n # 0
      [] OTHER -> FALSE

\* bytes(x) is defined for an int (x zero bytes) and for bytes; bytes(str) raises TypeError
BytesOk(x) == x.ty \in {"int", "bool", "bytes"}
Bytes(x) == IF x.ty = "bytes" THEN x ELSE PyBytes(x.n)

----------------------------------------------------------------------------
\* Cache modes

CACHE == 1
NOCACHE == 2
PRECACHE == 3
RECACHE == 4

ControlFlags == {"_precache", "_nocache", "_recache"}

\* the keyword names of the model, in the order sorted() gives them
SortedNames == <<"_nocache", "_precache", "_recache", "k1", "k2">>

KwNames(kwargs) == {kwargs[i].k : i \in DOMAIN kwargs}

\* kwargs[name]
KwItem(kwargs, name) == kwargs[CHOOSE i \in DOMAIN kwargs : kwargs[i].k = name].v

\* kwargs.get(name, default)
KwGet(kwargs, name, default) ==
    IF name \in KwNames(kwargs) THEN KwItem(kwargs, name) ELSE default

\* kwargs.keys() in the order the caller wrote them: the keys unsorted
SortedKeys_unsorted(kwargs) == [i \in DOMAIN kwargs |-> kwargs[i].k]

\* sorted(kwargs.keys())
SortedKeys(kwargs) == SelectSeq(SortedNames, LAMBDA n : n \in KwNames(kwargs))

\* the dict a sequence of keyword arguments makes
AsDict(kwargs) == [n \in KwNames(kwargs) |-> KwItem(kwargs, n)]

\* hashlib.md5 of a text, as hexdigest; no two texts of the model collide
Md5Hex(text) == "md5(" \o text \o ")"

RECURSIVE HashArgs(_)
HashArgs(args) ==
    IF args = <<>> THEN "" ELSE Str(Head(args)) \o HashArgs(Tail(args))

RECURSIVE HashKwargs(_, _)
HashKwargs(names, kwargs) ==
    IF names = <<>> THEN ""
    ELSE Head(names) \o Str(KwItem(kwargs, Head(names))) \o HashKwargs(Tail(names), kwargs)

arg_hash(args, kwargs) ==
    Md5Hex(HashArgs(args) \o HashKwargs(SortedKeys(kwargs), kwargs))

\* the flags looked at with _nocache before _precache
default_cachefn_nocache_first(args, kwargs) ==
    IF Truthy(KwGet(kwargs, "_nocache", PyBool(FALSE))) THEN NOCACHE
    ELSE IF Truthy(KwGet(kwargs, "_precache", PyBool(FALSE))) THEN PRECACHE
    ELSE IF Truthy(KwGet(kwargs, "_recache", PyBool(FALSE))) THEN RECACHE
    ELSE CACHE

default_cachefn(args, kwargs) ==
    IF Truthy(KwGet(kwargs, "_precache", PyBool(FALSE))) THEN PRECACHE
    ELSE IF Truthy(KwGet(kwargs, "_nocache", PyBool(FALSE))) THEN NOCACHE
    ELSE IF Truthy(KwGet(kwargs, "_recache", PyBool(FALSE))) THEN RECACHE
    ELSE CACHE

\* a stripping that leaves _recache among the keyword arguments
strip_kwargs_keep_recache(kwargs) ==
    SelectSeq(kwargs, LAMBDA p : p.k \notin {"_precache", "_nocache"})

strip_kwargs(kwargs) == SelectSeq(kwargs, LAMBDA p : p.k \notin ControlFlags)

key_from_args(args, kwargs) ==
    [key |-> arg_hash(args, strip_kwargs(kwargs)),
     stripped_kwargs |-> strip_kwargs(kwargs)]

----------------------------------------------------------------------------
\* MemoryCache: the five backend operations on its dict

\* an update that sets the value of the object already stored, keeping the rest of it
update_cache_partial(d, key, cache) ==
    [k \in (DOMAIN d) \cup {key} |->
        IF k # key THEN d[k]
        ELSE IF key \in DOMAIN d THEN [d[key] EXCEPT !.value = cache.value]
        ELSE cache]

\* an update that replaces the whole dict by the one entry
update_cache_alone(d, key, cache) == [k \in {key} |-> cache]

update_cache(d, key, cache) ==
    [k \in (DOMAIN d) \cup {key} |-> IF k = key THEN cache ELSE d[k]]

load_cache(d, key) == IF key \in DOMAIN d THEN d[key] ELSE None

exists_cache(d, key) == key \in DOMAIN d

delete_cache(d, key) == [k \in (DOMAIN d) \ {key} |-> d[k]]

keys(d) == DOMAIN d

----------------------------------------------------------------------------
\* CacheBase.__call__: the wrapper around fn

Timeout == 60
TestGrace == 15

\* a wrapper that reads the store in PRECACHE mode too
reads_cache_always(cachefnval) == TRUE

\* the wrapper reads the store unless the mode is PRECACHE
reads_cache(cachefnval) == cachefnval # PRECACHE

\* seconds since the cached object was created; 1e9 when there is none
age(t, cached) == IF cached # None THEN t - cached.created ELSE 1000000000

\* the hard-expiry test with >= for >
timed_out_at(diff) == diff >= Timeout

\* the hard-expiry test of the wrapper
timed_out(diff) == diff > Timeout

\* the RECACHE test with <= for <
in_grace_at(cachefnval, g, diff) ==
    cachefnval = RECACHE /\ Truthy(g) /\ Timeout - g.n <= diff

\* the RECACHE test of the wrapper
in_grace(cachefnval, g, diff) ==
    cachefnval = RECACHE /\ Truthy(g) /\ Timeout - g.n < diff

\* a decision that lets an entry live one second past timeout
do_cache_late(cached, diff, cachefnval, g) ==
    IF cached = None THEN TRUE
    ELSE IF diff > Timeout + 1 THEN TRUE
    ELSE in_grace(cachefnval, g, diff)

do_cache(cached, diff, cachefnval, g) ==
    IF cached = None THEN TRUE
    ELSE IF timed_out(diff) THEN TRUE
    ELSE in_grace(cachefnval, g, diff)

\* the value the cache object holds
stored_value(val, bin) == IF bin THEN Bytes(val) ELSE val

\* a cache object dated one second after the clock reading
cache_object_postdated(key, t, val, args, stripped_kwargs, bin) ==
    [key |-> key,
     created |-> t + 1,
     value |-> stored_value(val, bin),
     args |-> args,
     kwargs |-> AsDict(stripped_kwargs)]

cache_object(key, t, val, args, stripped_kwargs, bin) ==
    [key |-> key,
     created |-> t,
     value |-> stored_value(val, bin),
     args |-> args,
     kwargs |-> AsDict(stripped_kwargs)]

\* fn called with kwargs as the caller gave them: fn(*args, **kwargs)
fn_call_unstripped(args, kwargs, stripped_kwargs, fnres) ==
    [args |-> args, kwargs |-> AsDict(kwargs), result |-> fnres.val]

\* the call of fn the wrapper makes, fn(*args, **stripped_kwargs), and its result
fn_call(args, kwargs, stripped_kwargs, fnres) ==
    [args |-> args, kwargs |-> AsDict(stripped_kwargs), result |-> fnres.val]

\* the entries of the log the tests' logging backends keep, and the calls of fn
LoadEvent(key) == [op |-> "load_cache", key |-> key]
UpdateEvent(key) == [op |-> "update_cache", key |-> key]
FnEvent == [op |-> "fn", key |-> ""]

\* What one invocation did: the store and the clock it leaves and, in obs, what
\* an observer of the call sees: the call (c, with what its key had in the
\* store before: "none", a "fresh" entry or a "stale" one), the backend
\* operations and calls of fn in order (log), the call of fn made (called),
\* the cache object read (cached) and written (wrote), and what the caller
\* gets (outcome, error, ret).
Invocation(c, d, t, log, outcome, error, ret, cached, wrote, called) ==
    [data |-> d,
     now |-> t,
     obs |-> [op |-> "call", key |-> c.key, mode |-> c.mode, args |-> c.args,
              kwargs |-> c.kwargs, at |-> c.at, had |-> c.had, log |-> log,
              outcome |-> outcome, error |-> error, ret |-> ret, cached |-> cached,
              wrote |-> wrote, called |-> called]]

\* a wrapper that swallows what is raised and returns the stored value, if any
propagate_swallowed(c, d, t, log, error, cached, wrote, called) ==
    Invocation(c, d, t, log, "return", error,
               IF c.key \in DOMAIN d THEN d[c.key].value ELSE None,
               cached, wrote, called)

\* the wrapper has no except clause: what fn or the backend raises ends the
\* invocation and reaches the caller, who gets no value
propagate(c, d, t, log, error, cached, wrote, called) ==
    Invocation(c, d, t, log, "raise", error, None, cached, wrote, called)

\* a hit that returns the cache object for its value
hit_value_object(cached) == cached

\* the value returned on a hit
hit_value(cached) == cached.value

\* the store a failed update_cache leaves: the backend raised before or after writing
failed_update(d, key, new, how) ==
    IF how = "raise_after_write" THEN update_cache(d, key, new) ELSE d

\* a recompute that stores a cache object with no value before it calls fn,
\* and the value after
recompute_write_first(c, stripped_kwargs, d, t2, bin, fnres, env, log, cached) ==
    LET called == fn_call(c.args, c.kwargs, stripped_kwargs, fnres)
        empty == cache_object(c.key, c.at, None, c.args, stripped_kwargs, FALSE)
        new == cache_object(c.key, t2, fnres.val, c.args, stripped_kwargs, bin)
        log1 == log \o <<UpdateEvent(c.key), FnEvent>>
    IN  IF fnres.kind = "raise" \/ (bin /\ ~BytesOk(fnres.val))
        THEN propagate(c, update_cache(d, c.key, empty), t2, log1, "fn", cached, empty, called)
        ELSE Invocation(c, update_cache(d, c.key, new), t2, log1 \o <<UpdateEvent(c.key)>>,
                        "return", "", new.value, cached, new, called)

\* the recompute branch: fn, then the cache object, then update_cache.
\* fnres is what fn does (return a value, or raise), t2 the clock when fn is
\* over, env says which backend operations raise.
recompute(c, stripped_kwargs, d, t2, bin, fnres, env, log, cached) ==
    LET called == fn_call(c.args, c.kwargs, stripped_kwargs, fnres)
    IN  IF fnres.kind = "raise"
        THEN propagate(c, d, t2, log \o <<FnEvent>>, "fn", cached, None, called)
        ELSE IF bin /\ ~BytesOk(fnres.val)
        THEN propagate(c, d, t2, log \o <<FnEvent>>, "bytes", cached, None, called)
        ELSE LET new == cache_object(c.key, t2, fnres.val, c.args, stripped_kwargs, bin)
                 log2 == log \o <<FnEvent, UpdateEvent(c.key)>>
             IN  IF env.update = "ok"
                 THEN Invocation(c, update_cache(d, c.key, new), t2, log2,
                                 "return", "", new.value, cached, new, called)
                 ELSE propagate(c, failed_update(d, c.key, new, env.update), t2, log2,
                                "update_cache", cached, new, called)

\* a NOCACHE branch that reads the store before it calls fn
bypass_loading(c, stripped_kwargs, d, t2, fnres) ==
    Invocation(c, d, t2, <<LoadEvent(c.key), FnEvent>>, "return", "", fnres.val,
               load_cache(d, c.key), None,
               fn_call(c.args, c.kwargs, stripped_kwargs, fnres))

\* the NOCACHE branch: fn alone
bypass(c, stripped_kwargs, d, t2, fnres) ==
    LET called == fn_call(c.args, c.kwargs, stripped_kwargs, fnres)
    IN  IF fnres.kind = "raise"
        THEN propagate(c, d, t2, <<FnEvent>>, "fn", None, None, called)
        ELSE Invocation(c, d, t2, <<FnEvent>>, "return", "", fnres.val, None, None, called)

\* One invocation of the wrapped function with the store d and the clock t1.
wrapper(d, t1, t2, g, bin, args, kwargs, fnres, env) ==
    LET kf == key_from_args(args, kwargs)
        cachefnval == default_cachefn(args, kwargs)
        c == [key |-> kf.key, mode |-> cachefnval, args |-> args, kwargs |-> kwargs,
              at |-> t1,
              had |-> IF kf.key \notin DOMAIN d THEN "none"
                      ELSE IF t1 - d[kf.key].created > Timeout THEN "stale" ELSE "fresh"]
    IN  IF cachefnval = NOCACHE
        THEN bypass(c, kf.stripped_kwargs, d, t2, fnres)
        ELSE IF reads_cache(cachefnval) /\ env.load = "raise"
        THEN propagate(c, d, t1, <<LoadEvent(c.key)>>, "load_cache", None, None, None)
        ELSE LET cached == IF reads_cache(cachefnval) THEN load_cache(d, c.key) ELSE None
                 log == IF reads_cache(cachefnval) THEN <<LoadEvent(c.key)>> ELSE <<>>
                 diff == age(t1, cached)
             IN  IF do_cache(cached, diff, cachefnval, g)
                 THEN recompute(c, kf.stripped_kwargs, d, t2, bin, fnres, env, log, cached)
                 ELSE Invocation(c, d, t1, log, "return", "", hit_value(cached),
                                 cached, None, None)

----------------------------------------------------------------------------
\* Bounds and the inputs drawn from them

MaxClock == 62
NumValues == 2

\* the instants at which the clock is read: the start, the seconds around the
\* grace threshold (Timeout - TestGrace) and those from Timeout on
Instants ==
    {t \in 0..MaxClock :
        \/ t = 0
        \/ (t >= Timeout - TestGrace - 1 /\ t <= Timeout - TestGrace + 1)
        \/ t >= Timeout}

\* the instants fn may end at when it starts at t: at once, or at the next instant
EndInstants(t) ==
    {t} \cup {u \in Instants : u > t /\ \A w \in Instants : w > t => u <= w}

\* the configurations of the cache: [grace, binary]
Configs ==
    {[grace |-> None, binary |-> FALSE],
     [grace |-> PyInt(0), binary |-> TRUE],
     [grace |-> PyInt(TestGrace), binary |-> FALSE]}

\* what fn returns
FnValues == {PyInt(n) : n \in 1..NumValues}

FnReturns == {[kind |-> "return", val |-> v] : v \in FnValues}
FnRaises == {[kind |-> "raise", val |-> None]}
FnReturnsStr == {[kind |-> "return", val |-> PyStr("v")]}

EnvOk == [load |-> "ok", update |-> "ok"]
EnvFaulty ==
    {[load |-> "raise", update |-> "ok"],
     [load |-> "ok", update |-> "raise_before_write"],
     [load |-> "ok", update |-> "raise_after_write"]}

\* the calls made, as in the tests: slow_function(1, 2, k1="foo") with and
\* without control flags, and slow_function(1, 2, k1="bar")
CallArgs == {<<PyInt(1), PyInt(2)>>}

Foo == <<[k |-> "k1", v |-> PyStr("foo")]>>
Bar == <<[k |-> "k1", v |-> PyStr("bar")]>>

Flag(name, b) == [k |-> name, v |-> PyBool(b)]

FlagKwargs ==
    {<<>>,
     <<Flag("_nocache", TRUE)>>,
     <<Flag("_precache", TRUE)>>,
     <<Flag("_recache", TRUE)>>,
     <<Flag("_precache", TRUE), Flag("_nocache", TRUE)>>}

CallKwargs == {Foo \o f : f \in FlagKwargs} \cup {Bar}

----------------------------------------------------------------------------
\* The state machine

NoCall == [op |-> "none"]

Init ==
    /\ data = <<>>
    /\ now = 0
    /\ \E c \in Configs : grace = c.grace /\ binary = c.binary
    /\ last = NoCall
    /\ returned = <<>>
    /\ backend = "MemoryCache"
    /\ calls = <<>>

\* time passes
Tick ==
    /\ \E t \in Instants : t > now /\ now' = t
    /\ last' = NoCall
    /\ UNCHANGED <<data, grace, binary, returned, backend, calls>>

Invoke(args, kwargs, t2, fnres, env) ==
    LET r == wrapper(data, now, t2, grace, binary, args, kwargs, fnres, env)
    IN  /\ data' = r.data
        /\ now' = r.now
        /\ last' = r.obs
        /\ returned' = IF r.obs.wrote = None THEN returned
                       ELSE IF r.obs.outcome = "return"
                            THEN update_cache(returned, r.obs.key, r.obs.ret)
                            ELSE delete_cache(returned, r.obs.key)
        /\ UNCHANGED <<grace, binary, backend, calls>>

\* a call of the wrapped function whose fn and backend return normally
Call ==
    \E args \in CallArgs, kwargs \in CallKwargs, fnres \in FnReturns :
        \E t2 \in EndInstants(now) : Invoke(args, kwargs, t2, fnres, EnvOk)

\* the exception a failed invocation raises propagates to the caller of the
\* wrapped function; the runs followed here end with it
Running == ~(last.op = "call" /\ last.outcome = "raise")

\* a call of the wrapped function whose fn raises, or returns what bytes() rejects
CallFnFails ==
    /\ Running
    /\ \E args \in CallArgs, kwargs \in CallKwargs,
          fnres \in FnRaises \cup (IF binary THEN FnReturnsStr ELSE {}) :
           \E t2 \in EndInstants(now) : Invoke(args, kwargs, t2, fnres, EnvOk)

\* a call of the wrapped function during which the backend raises
CallBackendFails ==
    /\ Running
    /\ \E args \in CallArgs, kwargs \in CallKwargs, env \in EnvFaulty :
           Invoke(args, kwargs, now, [kind |-> "return", val |-> PyInt(1)], env)

\* MemoryCache.delete_cache called directly
Delete ==
    /\ \E key \in DOMAIN data :
           /\ data' = delete_cache(data, key)
           /\ returned' = delete_cache(returned, key)
    /\ last' = NoCall
    /\ UNCHANGED <<now, grace, binary, backend, calls>>

Next == Call \/ Tick \/ Delete

Spec == Init /\ [][Next]_vars

\* a call that succeeds, between the failures: it fills and refreshes the store
CallReturns ==
    /\ Running
    /\ \E args \in CallArgs, kwargs \in CallKwargs :
           \E t2 \in EndInstants(now) :
               Invoke(args, kwargs, t2, [kind |-> "return", val |-> PyInt(1)], EnvOk)

NextFail ==
    \/ CallFnFails
    \/ CallBackendFails
    \/ CallReturns
    \/ (Running /\ Tick)
    \/ (Running /\ Delete)

SpecFail == Init /\ [][NextFail]_vars

----------------------------------------------------------------------------
\* The key and the mode as functions of the call's arguments

MaxArgs == 1
MaxKwargs == 2

ArgValues == {PyInt(1), PyStr("1")}
KwargValues == {PyStr("a")}
FlagValues == {PyBool(TRUE), PyBool(FALSE)}

ArgsUniverse == UNION {[1..n -> ArgValues] : n \in 0..MaxArgs}

KwargPairs ==
    {[k |-> name, v |-> v] : name \in ControlFlags, v \in FlagValues}
    \cup {[k |-> name, v |-> v] : name \in {"k1", "k2"}, v \in KwargValues}

\* keyword arguments in the order written, no name twice
KwargsUniverse ==
    {kw \in UNION {[1..n -> KwargPairs] : n \in 0..MaxKwargs} :
        \A i, j \in DOMAIN kw : i # j => kw[i].k # kw[j].k}

\* a call about to be made
Input(args, kwargs) == [op |-> "input", args |-> args, kwargs |-> kwargs]

InitArgs ==
    /\ data = <<>>
    /\ now = 0
    /\ \E c \in Configs : grace = c.grace /\ binary = c.binary
    /\ \E args \in ArgsUniverse, kwargs \in KwargsUniverse : last = Input(args, kwargs)
    /\ returned = <<>>
    /\ backend = "MemoryCache"
    /\ calls = <<>>

\* key_from_args called on its own
KeyFromArgs ==
    /\ last.op = "input"
    /\ last' = [op |-> "key_from_args", args |-> last.args, kwargs |-> last.kwargs,
                result |-> key_from_args(last.args, last.kwargs)]
    /\ UNCHANGED <<data, now, grace, binary, returned, backend, calls>>

\* the cache's cachefn called on its own
CacheFn ==
    /\ last.op = "input"
    /\ last' = [op |-> "cachefn", args |-> last.args, kwargs |-> last.kwargs,
                result |-> default_cachefn(last.args, last.kwargs)]
    /\ UNCHANGED <<data, now, grace, binary, returned, backend, calls>>

\* the first call of the wrapped function
FirstCall ==
    /\ last.op = "input"
    /\ \E fnres \in FnReturns : Invoke(last.args, last.kwargs, now, fnres, EnvOk)

NextArgs == KeyFromArgs \/ CacheFn \/ FirstCall

SpecArgs == InitArgs /\ [][NextArgs]_vars

----------------------------------------------------------------------------
\* The backends: CacheBase, whose five operations are not implemented, and the
\* subclasses MemoryCache, FileCache and S3Cache.  An operation gives
\* [data, raised, result]: the store it leaves, the exception it raises ("" for
\* none) and what it returns.
\*
\* data maps a key to what the backend holds under it: for MemoryCache the
\* cache object itself; for FileCache the file basedir/prefix/key, [complete,
\* doc], doc the JSON document written and complete whether json.dump wrote
\* all of it; for S3Cache the object cache/prefix/key of the bucket, the same.
\* The directory basedir/prefix exists, and the bucket holds this cache's
\* objects only.

Returns(d, result) == [data |-> d, raised |-> "", result |-> result]
Raises(d, exc) == [data |-> d, raised |-> exc, result |-> None]

PyDatetime(t) == [ty |-> "datetime", n |-> t, s |-> ""]
\* a list: its items after a mark that tells it from the tuple of the same
\* items, since (1, 2) == [1, 2] is False
ListMark == [ty |-> "list", n |-> 0, s |-> ""]
PyList(items) == <<ListMark>> \o items
\* the items of a tuple or a list, as *args takes them
Items(xs) == IF xs # <<>> /\ Head(xs) = ListMark THEN Tail(xs) ELSE xs

\* datetime.isoformat() of the instant t seconds after the tests' d1, and
\* dateutil.parser.parse of such a text
IsoFormat(t) == "2017-01-01T00:00:00+" \o Decimal(t)
ParseIso(text) == CHOOSE t \in 0..MaxClock : IsoFormat(t) = text

\* OurJSONEncoder: what json can encode, and what it encodes it to
JsonOk(x) == x.ty \in {"int", "str", "bool", "NoneType", "datetime"}
\* an encoder that writes every value as its str()
JsonValue_text(x) == PyStr(Str(x))

JsonValue(x) == IF x.ty = "datetime" THEN PyStr(IsoFormat(x.n)) ELSE x

JsonDumpOk(cache) ==
    /\ JsonOk(cache.value)
    /\ \A i \in DOMAIN cache.args : JsonOk(cache.args[i])
    /\ \A n \in DOMAIN cache.kwargs : JsonOk(cache.kwargs[n])

\* json.dump(cache, cls=OurJSONEncoder) followed by json.load: the tuple args
\* comes back a list, a datetime comes back its isoformat() text
JsonDump(cache) ==
    [key |-> cache.key,
     created |-> IsoFormat(cache.created),
     value |-> JsonValue(cache.value),
     args |-> PyList([i \in DOMAIN cache.args |-> JsonValue(cache.args[i])]),
     kwargs |-> [n \in DOMAIN cache.kwargs |-> JsonValue(cache.kwargs[n])]]

\* val["created"] = dateutil.parser.parse(val["created"])
ParseCreated(doc) == [doc EXCEPT !.created = ParseIso(doc.created)]

WholeFile(doc) == [complete |-> TRUE, doc |-> doc]
\* the file open(..., "w+") truncated and json.dump left when it raised
BrokenFile == [complete |-> FALSE, doc |-> None]

\* operations of CacheBase that do nothing: a body of pass
CacheBase_operation_pass(d) == Returns(d, None)

\* CacheBase: raise Exception("Not implemented")
CacheBase_operation(d) == Raises(d, "Exception")

FileCache_exists_cache(d, key) == Returns(d, key \in DOMAIN d)

FileCache_update_cache(d, key, cache) ==
    IF JsonDumpOk(cache)
    THEN Returns(update_cache(d, key, WholeFile(JsonDump(cache))), None)
    ELSE Raises(update_cache(d, key, BrokenFile), "TypeError")

FileCache_load_cache(d, key) ==
    IF ~FileCache_exists_cache(d, key).result THEN Returns(d, None)
    ELSE IF ~d[key].complete THEN Raises(d, "JSONDecodeError")
    ELSE Returns(d, ParseCreated(d[key].doc))

\* os.unlink in a try that catches KeyError
FileCache_delete_cache(d, key) ==
    IF key \in DOMAIN d THEN Returns(delete_cache(d, key), None)
    ELSE Raises(d, "FileNotFoundError")

\* os.listdir
FileCache_keys(d) == Returns(d, DOMAIN d)

S3Cache_update_cache(d, key, cache) ==
    IF JsonDumpOk(cache)
    THEN Returns(update_cache(d, key, WholeFile(JsonDump(cache))), None)
    ELSE Raises(d, "TypeError")

S3Cache_load_cache(d, key) ==
    IF key \notin DOMAIN d THEN Returns(d, None)
    ELSE Returns(d, ParseCreated(d[key].doc))

\* _exists_key returns True or False
S3Cache_exists_key(d, key) == PyBool(key \in DOMAIN d)

\* self._exists_key(key) is not None
S3Cache_exists_cache(d, key) == Returns(d, S3Cache_exists_key(d, key) # None)

\* self._delete_key(key): S3Cache has no _delete_key
S3Cache_delete_cache(d, key) == Raises(d, "AttributeError")

\* _list_keys returns None when the bucket has no Contents
S3Cache_keys(d) ==
    IF DOMAIN d = {} THEN Raises(d, "TypeError") ELSE Returns(d, DOMAIN d)

ProvidedBackends == {"MemoryCache", "FileCache", "S3Cache"}
Backends == ProvidedBackends \cup {"CacheBase"}

\* self.update_cache(key, cache) and the other four, on a cache of class b
cache_update_cache(b, d, key, cache) ==
    CASE b = "MemoryCache" -> Returns(update_cache(d, key, cache), None)
      [] b = "FileCache" -> FileCache_update_cache(d, key, cache)
      [] b = "S3Cache" -> S3Cache_update_cache(d, key, cache)
      [] OTHER -> CacheBase_operation(d)

cache_load_cache(b, d, key) ==
    CASE b = "MemoryCache" -> Returns(d, load_cache(d, key))
      [] b = "FileCache" -> FileCache_load_cache(d, key)
      [] b = "S3Cache" -> S3Cache_load_cache(d, key)
      [] OTHER -> CacheBase_operation(d)

cache_exists_cache(b, d, key) ==
    CASE b = "MemoryCache" -> Returns(d, exists_cache(d, key))
      [] b = "FileCache" -> FileCache_exists_cache(d, key)
      [] b = "S3Cache" -> S3Cache_exists_cache(d, key)
      [] OTHER -> CacheBase_operation(d)

cache_delete_cache(b, d, key) ==
    CASE b = "MemoryCache" -> Returns(delete_cache(d, key), None)
      [] b = "FileCache" -> FileCache_delete_cache(d, key)
      [] b = "S3Cache" -> S3Cache_delete_cache(d, key)
      [] OTHER -> CacheBase_operation(d)

cache_keys(b, d) ==
    CASE b = "MemoryCache" -> Returns(d, keys(d))
      [] b = "FileCache" -> FileCache_keys(d)
      [] b = "S3Cache" -> S3Cache_keys(d)
      [] OTHER -> CacheBase_operation(d)

----------------------------------------------------------------------------
\* The backend operations called directly, as the tests call cm.delete_cache,
\* cm.exists_cache and cm.keys, on a cache of each class

TestArgs == <<PyInt(1), PyInt(2)>>
MissingKey == "00000000000000000000000000000000"
StoredKeys == {key_from_args(TestArgs, kwargs).key : kwargs \in {Foo, Bar}}
ProbedKeys == StoredKeys \cup {MissingKey}

\* what fn may have returned: an int, a datetime as slow_function does, bytes
BackendValues(t) == {PyInt(1), PyDatetime(t), PyBytes(1)}

\* what a step that called one backend operation did
BackendOp(op, key, cache, r) ==
    [op |-> op, key |-> key, cache |-> cache, raised |-> r.raised, result |-> r.result]

InitBackend ==
    /\ data = <<>>
    /\ now = 0
    /\ grace = PyInt(TestGrace)
    /\ binary = FALSE
    /\ last = NoCall
    /\ returned = <<>>
    /\ backend \in Backends
    /\ calls = <<>>

UpdateCache ==
    \E kwargs \in {Foo, Bar}, val \in BackendValues(now) :
        LET key == key_from_args(TestArgs, kwargs).key
            cache == cache_object(key, now, val, TestArgs, kwargs, FALSE)
            r == cache_update_cache(backend, data, key, cache)
        IN  /\ data' = r.data
            /\ last' = BackendOp("update_cache", key, cache, r)
            /\ returned' = IF r.raised = "" THEN update_cache(returned, key, val)
                           ELSE delete_cache(returned, key)
            /\ UNCHANGED <<now, grace, binary, backend, calls>>

LoadCache ==
    \E key \in ProbedKeys :
        LET r == cache_load_cache(backend, data, key)
        IN  /\ data' = r.data
            /\ last' = BackendOp("load_cache", key, None, r)
            /\ UNCHANGED <<now, grace, binary, returned, backend, calls>>

ExistsCache ==
    \E key \in ProbedKeys :
        LET r == cache_exists_cache(backend, data, key)
        IN  /\ data' = r.data
            /\ last' = BackendOp("exists_cache", key, None, r)
            /\ UNCHANGED <<now, grace, binary, returned, backend, calls>>

DeleteCache ==
    \E key \in ProbedKeys :
        LET r == cache_delete_cache(backend, data, key)
        IN  /\ data' = r.data
            /\ last' = BackendOp("delete_cache", key, None, r)
            /\ returned' = IF r.raised = "" THEN delete_cache(returned, key) ELSE returned
            /\ UNCHANGED <<now, grace, binary, backend, calls>>

Keys ==
    LET r == cache_keys(backend, data)
    IN  /\ data' = r.data
        /\ last' = BackendOp("keys", "", None, r)
        /\ UNCHANGED <<now, grace, binary, returned, backend, calls>>

\* a call of the wrapped function on a bare CacheBase, whose load_cache and
\* update_cache raise
BaseEnv ==
    [load |-> IF CacheBase_operation(<<>>).raised # "" THEN "raise" ELSE "ok",
     update |-> IF CacheBase_operation(<<>>).raised # "" THEN "raise_before_write" ELSE "ok"]

BaseCall ==
    /\ backend = "CacheBase"
    /\ \E args \in CallArgs, kwargs \in CallKwargs, fnres \in FnReturns :
           Invoke(args, kwargs, now, fnres, BaseEnv)

NextBackend ==
    UpdateCache \/ LoadCache \/ ExistsCache \/ DeleteCache \/ Keys \/ BaseCall \/ Tick

SpecBackend == InitBackend /\ [][NextBackend]_vars

----------------------------------------------------------------------------
\* CacheBase's maintenance operations: expired_items, need_refresh_items,
\* delete_all, delete_expired and refresh_cache, on the backends the tests run
\* them on.  Each is given the order in which self.keys() enumerates the keys.

\* the orders keys() may enumerate the keys ks in (os.listdir gives the names
\* in arbitrary order; the store modelled keeps no order for the dict's keys)
Orders(ks) ==
    {o \in [1..Cardinality(ks) -> ks] : \A i, j \in DOMAIN o : i # j => o[i] # o[j]}

\* the test of expired_items with >= for >
expired_at(diff) == diff >= Timeout

\* expired_items: diff > self.timeout
expired(diff) == diff > Timeout

\* the test of need_refresh_items with <= for <
needs_refresh_at(g, diff) == Timeout - g.n <= diff

\* the test of need_refresh_items with timeout for an upper bound
needs_refresh_window(g, diff) == Timeout - g.n < diff /\ diff <= Timeout

\* need_refresh_items: self.timeout - self.grace < diff
needs_refresh(g, diff) == Timeout - g.n < diff

\* the cache objects expired_items yields, run to its end at the instant t
RECURSIVE expired_items(_, _, _, _)
expired_items(b, d, t, order) ==
    IF order = <<>> THEN <<>>
    ELSE LET cache == cache_load_cache(b, d, Head(order)).result
             rest == expired_items(b, d, t, Tail(order))
         IN  IF expired(t - cache.created) THEN <<cache>> \o rest ELSE rest

RECURSIVE refresh_items(_, _, _, _, _)
refresh_items(b, d, t, g, order) ==
    IF order = <<>> THEN <<>>
    ELSE LET cache == cache_load_cache(b, d, Head(order)).result
             rest == refresh_items(b, d, t, g, Tail(order))
         IN  IF needs_refresh(g, t - cache.created) THEN <<cache>> \o rest ELSE rest

\* the cache objects need_refresh_items yields: none if not self.grace
need_refresh_items(b, d, t, g, order) ==
    IF ~Truthy(g) THEN <<>> ELSE refresh_items(b, d, t, g, order)

\* MemoryCache.keys() returns self.data.keys(), a view of the dict: iterating
\* it after the dict changed size raises RuntimeError.  os.listdir returns a list.
LiveKeys(b) == b = "MemoryCache"

\* delete_all over self.keys() itself, with no list() around it
RECURSIVE delete_all_live(_, _, _)
delete_all_live(b, d, order) ==
    IF order = <<>> THEN Returns(d, None)
    ELSE LET r == cache_delete_cache(b, d, Head(order))
         IN  IF r.raised # "" THEN r
             ELSE IF LiveKeys(b) THEN Raises(r.data, "RuntimeError")
             ELSE delete_all_live(b, r.data, Tail(order))

\* delete_all: for key in list(self.keys()): self.delete_cache(key)
RECURSIVE delete_all(_, _, _)
delete_all(b, d, order) ==
    IF order = <<>> THEN Returns(d, None)
    ELSE LET r == cache_delete_cache(b, d, Head(order))
         IN  IF r.raised # "" THEN r ELSE delete_all(b, r.data, Tail(order))

\* delete_expired: for cache in self.expired_items(): self.delete_cache(cache["key"]),
\* the generator resumed after each deletion; n is the size the dict had when
\* the iteration began
RECURSIVE delete_expired_from(_, _, _, _, _)
delete_expired_from(b, d, t, order, n) ==
    IF LiveKeys(b) /\ Cardinality(DOMAIN d) # n THEN Raises(d, "RuntimeError")
    ELSE IF order = <<>> THEN Returns(d, None)
    ELSE LET cache == cache_load_cache(b, d, Head(order)).result
         IN  IF expired(t - cache.created)
             THEN LET r == cache_delete_cache(b, d, cache.key)
                  IN  IF r.raised # "" THEN r
                      ELSE delete_expired_from(b, r.data, t, Tail(order), n)
             ELSE delete_expired_from(b, d, t, Tail(order), n)

delete_expired(b, d, t, order) ==
    delete_expired_from(b, d, t, order, Cardinality(DOMAIN d))

\* the call refresh_cache makes for a cache object: fn(*cache["args"], **cache["kwargs"])
refresh_call(cache) == [args |-> Items(cache.args), kwargs |-> cache.kwargs]

\* a refresh_cache that leaves its loop after the first call of fn
refresh_cache_once(b, d, t, g, order) ==
    LET items == need_refresh_items(b, d, t, g, order)
    IN  [i \in DOMAIN items \cap {1} |-> refresh_call(items[i])]

\* refresh_cache(fn) for a plain function fn: the calls of fn it makes, in order
refresh_cache(b, d, t, g, order) ==
    LET items == need_refresh_items(b, d, t, g, order)
    IN  [i \in DOMAIN items |-> refresh_call(items[i])]

SweepBackends == {"MemoryCache", "FileCache"}

\* what a maintenance step did: the store it found (before), the instant, what
\* it yielded or called, what it raised
SweepOp(op, d, t, order, raised, yielded, called) ==
    [op |-> op, before |-> d, at |-> t, order |-> order, raised |-> raised,
     yielded |-> yielded, called |-> called]

InitSweep ==
    /\ data = <<>>
    /\ now = 0
    /\ \E c \in Configs : grace = c.grace /\ binary = c.binary
    /\ last = NoCall
    /\ returned = <<>>
    /\ backend \in SweepBackends
    /\ calls = <<>>

\* the calls whose entries are stored: the two of the tests
SweepKwargs == {Foo, Bar}

\* an entry is stored, as a call of the wrapped function that recomputes stores it
StoreEntry ==
    \E kwargs \in SweepKwargs :
        LET key == key_from_args(TestArgs, kwargs).key
            cache == cache_object(key, now, PyInt(1), TestArgs, kwargs, binary)
            r == cache_update_cache(backend, data, key, cache)
        IN  /\ r.raised = ""
            /\ data' = r.data
            /\ last' = NoCall
            /\ returned' = update_cache(returned, key, cache.value)
            /\ UNCHANGED <<now, grace, binary, backend, calls>>

ExpiredItems ==
    \E order \in Orders(DOMAIN data) :
        /\ last' = SweepOp("expired_items", data, now, order, "",
                           expired_items(backend, data, now, order), <<>>)
        /\ UNCHANGED <<data, now, grace, binary, returned, backend, calls>>

NeedRefreshItems ==
    \E order \in Orders(DOMAIN data) :
        /\ last' = SweepOp("need_refresh_items", data, now, order, "",
                           need_refresh_items(backend, data, now, grace, order), <<>>)
        /\ UNCHANGED <<data, now, grace, binary, returned, backend, calls>>

RefreshCache ==
    \E order \in Orders(DOMAIN data) :
        /\ last' = SweepOp("refresh_cache", data, now, order, "",
                           need_refresh_items(backend, data, now, grace, order),
                           refresh_cache(backend, data, now, grace, order))
        /\ UNCHANGED <<data, now, grace, binary, returned, backend, calls>>

DeleteAll ==
    \E order \in Orders(DOMAIN data) :
        LET r == delete_all(backend, data, order)
        IN  /\ data' = r.data
            /\ last' = SweepOp("delete_all", data, now, order, r.raised, <<>>, <<>>)
            /\ returned' = [k \in DOMAIN r.data |-> returned[k]]
            /\ UNCHANGED <<now, grace, binary, backend, calls>>

DeleteExpired ==
    \E order \in Orders(DOMAIN data) :
        LET r == delete_expired(backend, data, now, order)
        IN  /\ data' = r.data
            /\ last' = SweepOp("delete_expired", data, now, order, r.raised, <<>>, <<>>)
            /\ returned' = [k \in DOMAIN r.data |-> returned[k]]
            /\ UNCHANGED <<now, grace, binary, backend, calls>>

NextSweep ==
    \/ StoreEntry
    \/ Tick
    \/ ExpiredItems
    \/ NeedRefreshItems
    \/ RefreshCache
    \/ DeleteAll
    \/ DeleteExpired

SpecSweep == InitSweep /\ [][NextSweep]_vars

----------------------------------------------------------------------------
\* Two callers in the wrapper at once, on a MemoryCache.  The wrapper holds no
\* lock: between a caller's load_cache, its call of fn and its update_cache the
\* other caller may take any of its own steps.  calls[c] is where caller c is:
\* "idle", then "fn" (it loaded and decided to recompute), then "update" (fn
\* returned and the cache object is built), then "done".

Callers == {"a", "b"}

Idle == [pc |-> "idle"]

\* the entry a store may hold before the callers arrive
EarlierEntry ==
    cache_object(key_from_args(TestArgs, Foo).key, 0, PyInt(1), TestArgs, Foo, FALSE)

\* the calls the callers make: fn(1, 2, k1="foo"), plain or with _precache=True
RaceKwargs == {Foo, Foo \o <<Flag("_precache", TRUE)>>}

\* what the step of a caller did
RaceOp(op, c, key) == [op |-> op, caller |-> c, key |-> key]

InitRace ==
    /\ data \in {<<>>, update_cache(<<>>, EarlierEntry.key, EarlierEntry)}
    /\ now = 0
    /\ grace = PyInt(TestGrace)
    /\ binary = FALSE
    /\ last = NoCall
    /\ returned = [k \in DOMAIN data |-> data[k].value]
    /\ backend = "MemoryCache"
    /\ calls = [c \in Callers |-> Idle]

\* the wrapper up to do_cache: key, mode, load_cache, diff, the decision
RaceBegin(c) ==
    /\ calls[c].pc = "idle"
    /\ \E kwargs \in RaceKwargs :
        LET kf == key_from_args(TestArgs, kwargs)
            cachefnval == default_cachefn(TestArgs, kwargs)
            cached == IF reads_cache(cachefnval) THEN load_cache(data, kf.key) ELSE None
            diff == age(now, cached)
            log == IF reads_cache(cachefnval) THEN <<"load_cache">> ELSE <<>>
            here == [key |-> kf.key, mode |-> cachefnval, args |-> TestArgs,
                     stripped_kwargs |-> kf.stripped_kwargs, cached |-> cached]
        IN  /\ cachefnval # NOCACHE
            /\ calls' = [calls EXCEPT ![c] =
                  IF do_cache(cached, diff, cachefnval, grace)
                  THEN [pc |-> "fn", recompute |-> TRUE, log |-> log, at |-> here]
                  ELSE [pc |-> "done", recompute |-> FALSE, log |-> log, at |-> here,
                        ret |-> hit_value(cached)]]
            /\ last' = RaceOp("load_cache", c, kf.key)
    /\ UNCHANGED <<data, now, grace, binary, returned, backend>>

\* val = fn(*args, **stripped_kwargs), then the cache object with created = utcnow()
RaceFn(c) ==
    /\ calls[c].pc = "fn"
    /\ \E fnres \in FnReturns :
        LET at == calls[c].at
            new == cache_object(at.key, now, fnres.val, at.args, at.stripped_kwargs, binary)
        IN  calls' = [calls EXCEPT ![c] =
                [pc |-> "update", recompute |-> TRUE, log |-> calls[c].log \o <<"fn">>,
                 at |-> at, val |-> fnres.val, new |-> new]]
    /\ last' = RaceOp("fn", c, calls[c].at.key)
    /\ UNCHANGED <<data, now, grace, binary, returned, backend>>

\* self.update_cache(key, cached), then return cached["value"]
RaceUpdate(c) ==
    /\ calls[c].pc = "update"
    /\ data' = update_cache(data, calls[c].at.key, calls[c].new)
    /\ calls' = [calls EXCEPT ![c] =
            [pc |-> "done", recompute |-> TRUE, log |-> calls[c].log \o <<"update_cache">>,
             at |-> calls[c].at, val |-> calls[c].val, new |-> calls[c].new,
             ret |-> hit_value(calls[c].new)]]
    /\ last' = RaceOp("update_cache", c, calls[c].at.key)
    /\ returned' = [k \in DOMAIN returned \cup {calls[c].at.key} |->
                       IF k = calls[c].at.key THEN hit_value(calls[c].new) ELSE returned[k]]
    /\ UNCHANGED <<now, grace, binary, backend>>

\* time passes while the callers are in the wrapper
RaceTick ==
    /\ \E t \in Instants : t > now /\ now' = t
    /\ last' = NoCall
    /\ UNCHANGED <<data, grace, binary, returned, backend, calls>>

NextRace ==
    \/ \E c \in Callers : RaceBegin(c)
    \/ \E c \in Callers : RaceFn(c)
    \/ \E c \in Callers : RaceUpdate(c)
    \/ RaceTick

SpecRace == InitRace /\ [][NextRace]_vars

----------------------------------------------------------------------------
\* A MemoryCache in use: calls of the wrapped function in every mode, direct
\* deletes, delete_all, delete_expired, and refresh_cache given the wrapped
\* function itself, as the tests call cm.refresh_cache(fn=fn).

\* the keyword arguments **d passes for the dict d
KwSeq(d) ==
    LET names == SelectSeq(SortedNames, LAMBDA n : n \in DOMAIN d)
    IN  [i \in DOMAIN names |-> [k |-> names[i], v |-> d[names[i]]]]

\* the loop of refresh_cache when fn is the wrapper: each key of the listing is
\* loaded and, if it needs a refresh, the wrapper is called with the entry's
\* args and kwargs before the next key is loaded.  Gives the store left and
\* the invocations made, in order.
RECURSIVE refresh_wrapped_from(_, _, _, _, _, _, _)
refresh_wrapped_from(b, d, t, g, bin, order, fnres) ==
    IF order = <<>> THEN [data |-> d, invoked |-> <<>>]
    ELSE LET cache == cache_load_cache(b, d, Head(order)).result
         IN  IF needs_refresh(g, t - cache.created)
             THEN LET r == wrapper(d, t, t, g, bin, Items(cache.args),
                                   KwSeq(cache.kwargs), fnres, EnvOk)
                      rest == refresh_wrapped_from(b, r.data, t, g, bin, Tail(order), fnres)
                  IN  [data |-> rest.data, invoked |-> <<r.obs>> \o rest.invoked]
             ELSE refresh_wrapped_from(b, d, t, g, bin, Tail(order), fnres)

\* refresh_cache(fn), fn the wrapped function: nothing if not self.grace
refresh_cache_wrapped(b, d, t, g, bin, order, fnres) ==
    IF ~Truthy(g) THEN [data |-> d, invoked |-> <<>>]
    ELSE refresh_wrapped_from(b, d, t, g, bin, order, fnres)

\* what fn returns in these runs
StoreFnReturn == [kind |-> "return", val |-> PyInt(1)]

\* a call of the wrapped function, in any mode
StoreCall ==
    \E args \in CallArgs, kwargs \in CallKwargs :
        \E t2 \in EndInstants(now) : Invoke(args, kwargs, t2, StoreFnReturn, EnvOk)

RefreshWrapped ==
    \E order \in Orders(DOMAIN data) :
        LET r == refresh_cache_wrapped(backend, data, now, grace, binary, order,
                                       StoreFnReturn)
        IN  /\ data' = r.data
            /\ last' = SweepOp("refresh_cache", data, now, order, "",
                               need_refresh_items(backend, data, now, grace, order),
                               r.invoked)
            /\ returned' = [k \in DOMAIN r.data |->
                               IF r.data[k] # data[k] THEN r.data[k].value ELSE returned[k]]
            /\ UNCHANGED <<now, grace, binary, backend, calls>>

NextStore ==
    \/ StoreCall
    \/ Tick
    \/ Delete
    \/ DeleteAll
    \/ DeleteExpired
    \/ RefreshWrapped

SpecStore == Init /\ [][NextStore]_vars

----------------------------------------------------------------------------
\* A sweep while another thread or process deletes.  expired_items and
\* need_refresh_items are generators over self.keys(), and delete_expired runs
\* over expired_items: between the listing of the keys and the load_cache of
\* each of them other users of the store take steps.  calls["sweep"] is where
\* the sweep is: the operation, the keys of the listing still to visit (todo),
\* the size the dict had at the listing (size), the keys yielded or deleted so
\* far (done), whether a key still to visit has been removed meanwhile (stale),
\* and the exception that ended it (raised).

SweepOperations == {"expired_items", "need_refresh_items", "delete_expired"}

InitStale ==
    /\ data = <<>>
    /\ now = 0
    /\ grace = PyInt(TestGrace)
    /\ binary = FALSE
    /\ last = NoCall
    /\ returned = <<>>
    /\ backend \in SweepBackends
    /\ calls = [s \in {"sweep"} |-> Idle]

\* for key in self.keys(): the listing is taken
SweepBegin ==
    /\ calls["sweep"].pc = "idle"
    /\ \E op \in SweepOperations, order \in Orders(DOMAIN data) :
           /\ cache_keys(backend, data).raised = ""
           /\ calls' = [calls EXCEPT !["sweep"] =
                  [pc |-> "loop", op |-> op, todo |-> order,
                   size |-> Cardinality(DOMAIN data), done |-> <<>>,
                   stale |-> FALSE, raised |-> ""]]
           /\ last' = [op |-> op, key |-> ""]
    /\ UNCHANGED <<data, now, grace, binary, returned, backend>>

\* the entry the sweep selects: expired_items' or need_refresh_items' test
Selects(op, g, diff) ==
    IF op = "need_refresh_items" THEN needs_refresh(g, diff) ELSE expired(diff)

\* one turn of the loop: the next key of the listing, load_cache, the test on
\* cache["created"], and for delete_expired the delete_cache of a selected entry
SweepVisit ==
    /\ calls["sweep"].pc = "loop"
    /\ LET sw == calls["sweep"]
           ended(exc) == [sw EXCEPT !.pc = "raised", !.raised = exc]
       IN  IF LiveKeys(backend) /\ Cardinality(DOMAIN data) # sw.size
           THEN /\ calls' = [calls EXCEPT !["sweep"] = ended("RuntimeError")]
                /\ last' = [op |-> sw.op, key |-> ""]
                /\ UNCHANGED <<data, returned>>
           ELSE IF sw.todo = <<>>
           THEN /\ calls' = [calls EXCEPT !["sweep"] = [sw EXCEPT !.pc = "done"]]
                /\ last' = [op |-> sw.op, key |-> ""]
                /\ UNCHANGED <<data, returned>>
           ELSE LET key == Head(sw.todo)
                    cache == cache_load_cache(backend, data, key).result
                IN  /\ last' = [op |-> sw.op, key |-> key]
                    /\ IF cache = None
                       THEN /\ calls' = [calls EXCEPT !["sweep"] = ended("TypeError")]
                            /\ UNCHANGED <<data, returned>>
                       ELSE IF ~Selects(sw.op, grace, now - cache.created)
                       THEN /\ calls' = [calls EXCEPT !["sweep"] =
                                   [sw EXCEPT !.todo = Tail(sw.todo)]]
                            /\ UNCHANGED <<data, returned>>
                       ELSE IF sw.op # "delete_expired"
                       THEN /\ calls' = [calls EXCEPT !["sweep"] =
                                   [sw EXCEPT !.todo = Tail(sw.todo),
                                              !.done = sw.done \o <<key>>]]
                            /\ UNCHANGED <<data, returned>>
                       ELSE LET r == cache_delete_cache(backend, data, cache.key)
                            IN  /\ data' = r.data
                                /\ returned' = [k \in DOMAIN r.data |-> returned[k]]
                                /\ calls' = [calls EXCEPT !["sweep"] =
                                       IF r.raised # "" THEN ended(r.raised)
                                       ELSE [sw EXCEPT !.todo = Tail(sw.todo),
                                                       !.done = sw.done \o <<key>>]]
    /\ UNCHANGED <<now, grace, binary, backend>>

\* another user of the store deletes a stored entry while the sweep runs
ConcurrentDelete ==
    /\ calls["sweep"].pc = "loop"
    /\ \E key \in DOMAIN data :
           LET r == cache_delete_cache(backend, data, key)
               sw == calls["sweep"]
           IN  /\ r.raised = ""
               /\ data' = r.data
               /\ returned' = [k \in DOMAIN r.data |-> returned[k]]
               /\ calls' = [calls EXCEPT !["sweep"] =
                      [sw EXCEPT !.stale = sw.stale \/ \E i \in DOMAIN sw.todo : sw.todo[i] = key]]
               /\ last' = [op |-> "delete_cache", key |-> key]
    /\ UNCHANGED <<now, grace, binary, backend>>

\* before the sweep entries are stored and time passes
NextStale ==
    \/ (calls["sweep"].pc = "idle" /\ StoreEntry)
    \/ (calls["sweep"].pc = "idle" /\ Tick)
    \/ SweepBegin
    \/ SweepVisit
    \/ ConcurrentDelete

SpecStale == InitStale /\ [][NextStale]_vars

----------------------------------------------------------------------------
\* Calls whose arguments differ and whose string forms, put end to end as
\* arg_hash_gen's h.update() calls put them, read the same.

\* fn("1", "2"), fn("12"), fn(1, 2), fn("k1a"), fn() and fn(k1="a")
KeyCalls ==
    {[args |-> args, kwargs |-> <<>>] :
        args \in {<<PyStr("1"), PyStr("2")>>, <<PyStr("12")>>, <<PyInt(1), PyInt(2)>>,
                  <<PyStr("k1a")>>, <<>>}}
    \cup {[args |-> <<>>, kwargs |-> <<[k |-> "k1", v |-> PyStr("a")]>>]}

\* a call of the wrapped function with these arguments
KeyCall ==
    \E c \in KeyCalls, fnres \in FnReturns :
        Invoke(c.args, c.kwargs, now, fnres, EnvOk)

NextKeys == KeyCall \/ Delete

SpecKeys == Init /\ [][NextKeys]_vars

----------------------------------------------------------------------------
\* What the properties below speak of

IsCall == last.op = "call"

\* how often the operation op occurs in a log
Count(log, op) == Cardinality({i \in DOMAIN log : log[i].op = op})

Ops(log) == [i \in DOMAIN log |-> log[i].op]

\* the control flags a call sets: those present in kwargs with a true value
FlagsSet(kwargs) ==
    {kwargs[i].k : i \in {j \in DOMAIN kwargs :
                            kwargs[j].k \in ControlFlags /\ kwargs[j].v = PyBool(TRUE)}}

\* a call in CACHE mode sets no flag
CacheModeCall == IsCall /\ FlagsSet(last.kwargs) = {}

\* seconds between the creation of the entry the call read and the call
AgeRead == last.at - last.cached.created

----------------------------------------------------------------------------
----------------------------------------------------------------------------
\* C2. Hard expiry.  A CACHE-mode call that finds a stored entry calls fn and
\* update_cache exactly when the entry's age is strictly greater than timeout;
\* the entry it then stores has created equal to the clock; with age <= timeout
\* it serves the stored value and writes nothing.
C2_HardExpiry ==
    (CacheModeCall /\ last.cached # None) =>
        /\ (Count(last.log, "fn") = 1 /\ Count(last.log, "update_cache") = 1)
              <=> AgeRead > Timeout
        /\ (Count(last.log, "fn") = 0 /\ Count(last.log, "update_cache") = 0)
              <=> AgeRead <= Timeout
        /\ AgeRead > Timeout =>
              /\ last.wrote.created = now
              /\ data[last.key] = last.wrote
        /\ AgeRead <= Timeout =>
              /\ last.ret = last.cached.value
              /\ last.wrote = None
              /\ data[last.key] = last.cached

\* an entry one second past timeout is recomputed while the clock moves on
C2_Witness ==
    /\ CacheModeCall
    /\ last.cached # None
    /\ AgeRead = Timeout + 1
    /\ now > last.at
    /\ last.wrote.created = now

----------------------------------------------------------------------------
\* a call that sets _nocache and not _precache
NocacheCall(call) ==
    /\ call.op = "call"
    /\ "_nocache" \in FlagsSet(call.kwargs)
    /\ "_precache" \notin FlagsSet(call.kwargs)

\* C3. NOCACHE bypass.  A call with _nocache set and _precache not set calls fn
\* once, with the keyword arguments less the control flags, returns what fn
\* returned, does no backend operation and leaves the whole store as it was.
C3_NocacheBypass ==
    [][NocacheCall(last') =>
          /\ Ops(last'.log) = <<"fn">>
          /\ last'.called.args = last'.args
          /\ DOMAIN last'.called.kwargs = KwNames(last'.kwargs) \ ControlFlags
          /\ \A n \in DOMAIN last'.called.kwargs :
                 last'.called.kwargs[n] = KwItem(last'.kwargs, n)
          /\ last'.outcome = "return"
          /\ last'.ret = last'.called.result
          /\ data' = data]_vars

\* a NOCACHE call for a key that has a stored entry with another value
C3_Witness ==
    /\ NocacheCall(last)
    /\ last.key \in DOMAIN data
    /\ data[last.key].value # last.ret
    /\ Cardinality(DOMAIN data) = 2

----------------------------------------------------------------------------
\* C4. PRECACHE force.  A call with _precache set does no load_cache, calls fn
\* once and does one update_cache under its key, whatever entry the key had;
\* the entry then stored has the new value and created equal to the clock,
\* and the call returns the new value.
C4_PrecacheForce ==
    (IsCall /\ "_precache" \in FlagsSet(last.kwargs)) =>
        /\ Ops(last.log) = <<"fn", "update_cache">>
        /\ last.log[2].key = last.key
        /\ last.key \in DOMAIN data
        /\ data[last.key] = last.wrote
        /\ data[last.key].created = now
        /\ data[last.key].value =
              (IF binary THEN Bytes(last.called.result) ELSE last.called.result)
        /\ last.outcome = "return"
        /\ last.ret = data[last.key].value

\* a PRECACHE call overwrites an entry that has not expired, the clock moving on
C4_Witness ==
    /\ IsCall
    /\ "_precache" \in FlagsSet(last.kwargs)
    /\ last.had = "fresh"
    /\ now > last.at
    /\ data[last.key].created = now

----------------------------------------------------------------------------
\* a call that sets _recache alone
RecacheCall == IsCall /\ FlagsSet(last.kwargs) = {"_recache"}

GraceSet == grace # None /\ grace # PyInt(0)

\* C5. RECACHE grace threshold.  With grace set, a call with _recache set that
\* finds a stored entry recomputes exactly when the entry's age is strictly
\* greater than timeout - grace; with grace absent (None or 0) it recomputes
\* exactly when a CACHE-mode call would: when the age is strictly greater than
\* timeout.  When it does not recompute it serves the stored value.
C5_RecacheGrace ==
    (RecacheCall /\ last.cached # None) =>
        /\ GraceSet => (Count(last.log, "fn") = 1 <=> AgeRead > Timeout - grace.n)
        /\ ~GraceSet => (Count(last.log, "fn") = 1 <=> AgeRead > Timeout)
        /\ Count(last.log, "fn") = Count(last.log, "update_cache")
        /\ Count(last.log, "fn") = 0 =>
              /\ last.ret = last.cached.value
              /\ data[last.key] = last.cached

\* timeout 60, grace 15: the entry of age 46 is recomputed
C5_Witness ==
    /\ RecacheCall
    /\ last.cached # None
    /\ grace = PyInt(TestGrace)
    /\ AgeRead = Timeout - TestGrace + 1
    /\ Count(last.log, "fn") = 1

----------------------------------------------------------------------------
\* the place of an operation in the order load_cache, fn, update_cache
OpRank(op) ==
    CASE op = "load_cache" -> 1
      [] op = "fn" -> 2
      [] op = "update_cache" -> 3
      [] OTHER -> 0

----------------------------------------------------------------------------
\* the business arguments among the keyword arguments: those that are no control flag
Business(kwargs) ==
    [n \in KwNames(kwargs) \ ControlFlags |-> KwItem(kwargs, n)]

\* C7. The cache key is a function of the logical call only.  key_from_args
\* gives one key to all calls with the same positional arguments and the same
\* business keyword arguments, in whatever order the keyword arguments are
\* written and whichever control flags are added; so the wrapper reads and
\* writes, in every mode that uses the store, the one entry under that key.
C7_KeyOfLogicalCall ==
    /\ last.op = "key_from_args" =>
          \A kw \in KwargsUniverse :
              Business(kw) = Business(last.kwargs) =>
                  key_from_args(last.args, kw).key = last.result.key
    /\ (IsCall /\ last.mode # NOCACHE) =>
          \A kw \in KwargsUniverse :
              Business(kw) = Business(last.kwargs) =>
                  /\ \A i \in DOMAIN last.log :
                         last.log[i].op # "fn" =>
                             last.log[i].key = key_from_args(last.args, kw).key
                  /\ DOMAIN data = {key_from_args(last.args, kw).key}

\* key_from_args on keyword arguments written against the sorted order
C7_Witness ==
    /\ last.op = "key_from_args"
    /\ Len(last.kwargs) = 2
    /\ last.kwargs[1].k = "k2"
    /\ last.kwargs[2].k = "k1"

----------------------------------------------------------------------------
\* C8. Mode derivation priority.  default_cachefn returns PRECACHE if _precache
\* is set, otherwise NOCACHE if _nocache is set, otherwise RECACHE if _recache
\* is set, otherwise CACHE; a call that sets both _precache and _nocache is a
\* PRECACHE call: it calls fn and writes the store.
C8_ModePriority ==
    /\ last.op = "cachefn" =>
          /\ last.result = PRECACHE <=> "_precache" \in FlagsSet(last.kwargs)
          /\ last.result = NOCACHE <=>
                ("_nocache" \in FlagsSet(last.kwargs)
                 /\ "_precache" \notin FlagsSet(last.kwargs))
          /\ last.result = RECACHE <=>
                ("_recache" \in FlagsSet(last.kwargs)
                 /\ FlagsSet(last.kwargs) \cap {"_precache", "_nocache"} = {})
          /\ last.result = CACHE <=> FlagsSet(last.kwargs) = {}
    /\ (IsCall /\ {"_precache", "_nocache"} \subseteq FlagsSet(last.kwargs)) =>
          /\ last.mode = PRECACHE
          /\ Ops(last.log) = <<"fn", "update_cache">>
          /\ last.key \in DOMAIN data
          /\ data[last.key].value = last.ret

\* a call with both _precache and _nocache set has written the store
C8_Witness ==
    /\ IsCall
    /\ {"_precache", "_nocache"} \subseteq FlagsSet(last.kwargs)
    /\ last.key \in DOMAIN data

----------------------------------------------------------------------------
\* C9. If fn raises during an invocation that needs a recompute, the failure
\* reaches the caller, update_cache is not called, and the store is as it was
\* before the invocation.
C9_FnRaises ==
    [][(last'.op = "call" /\ last'.error = "fn" /\ last'.mode # NOCACHE) =>
          /\ last'.outcome = "raise"
          /\ last'.ret = None
          /\ Count(last'.log, "fn") = 1
          /\ Count(last'.log, "update_cache") = 0
          /\ data' = data]_vars

\* fn raises on the recompute of an expired entry, which stays stored
C9_Witness ==
    /\ IsCall
    /\ last.error = "fn"
    /\ last.mode = CACHE
    /\ last.had = "stale"
    /\ last.key \in DOMAIN data
    /\ now - data[last.key].created > Timeout

----------------------------------------------------------------------------
\* C10. Backend failures are propagated without retry or fallback.  If
\* load_cache raises, the invocation fails with it, fn and update_cache are not
\* called and no value is returned; if update_cache raises, the invocation
\* fails with it after one update_cache and returns no value.
C10_BackendRaises ==
    /\ (IsCall /\ last.error = "load_cache") =>
          /\ last.outcome = "raise"
          /\ last.ret = None
          /\ Ops(last.log) = <<"load_cache">>
    /\ (IsCall /\ last.error = "update_cache") =>
          /\ last.outcome = "raise"
          /\ last.ret = None
          /\ Count(last.log, "update_cache") = 1
          /\ Count(last.log, "fn") = 1

\* load_cache raises while the key has an entry that could have been served
C10_Witness ==
    /\ IsCall
    /\ last.error = "load_cache"
    /\ last.had = "fresh"
    /\ last.key \in DOMAIN data

----------------------------------------------------------------------------
\* a step that called the backend operation op of a provided backend
BackendStep(call, op) == call.op = op /\ backend \in ProvidedBackends

\* C11. Deletion idempotence.  On every provided backend, delete_cache(key)
\* does not raise; for a key that is not stored it leaves the keys as they
\* are, and for a stored key it removes that key and no other.
C11_DeleteIdempotent ==
    [][BackendStep(last', "delete_cache") =>
          /\ last'.raised = ""
          /\ DOMAIN data' = DOMAIN data \ {last'.key}]_vars

----------------------------------------------------------------------------
\* a maintenance step of the kind op
SweepStep(op) == last.op = op

\* the keys of the cache objects yielded, in order
YieldedKeys(items) == [i \in DOMAIN items |-> items[i].key]

\* the age at the instant t of the entry the store d holds under key
AgeIn(b, d, t, key) == t - cache_load_cache(b, d, key).result.created

\* C12. delete_expired removes exactly the expired entries: it completes
\* without error, afterwards no stored entry has age > timeout, and every entry
\* whose age was <= timeout is still stored, unchanged.
C12_DeleteExpired ==
    SweepStep("delete_expired") =>
        /\ last.raised = ""
        /\ \A k \in DOMAIN data : AgeIn(backend, data, last.at, k) <= Timeout
        /\ \A k \in DOMAIN last.before :
               AgeIn(backend, last.before, last.at, k) <= Timeout =>
                   k \in DOMAIN data /\ data[k] = last.before[k]

\* the keys of the store d whose entries are expired at the instant t
ExpiredKeys(b, d, t) == {k \in DOMAIN d : AgeIn(b, d, t, k) > Timeout}

\* the sequence xs lists the members of the set S, each once
ListsOnce(xs, S) == Len(xs) = Cardinality(S) /\ {xs[i] : i \in DOMAIN xs} = S

----------------------------------------------------------------------------
\* C13. delete_all empties the store: from any store it ends without error,
\* having deleted the keys of the snapshot it took, and keys() is then empty.
C13_DeleteAll ==
    SweepStep("delete_all") =>
        /\ last.raised = ""
        /\ cache_keys(backend, data).result = {}
        /\ DOMAIN data = {}

\* delete_all has emptied a store of two entries
C13_Witness ==
    /\ SweepStep("delete_all")
    /\ Cardinality(DOMAIN last.before) = 2
    /\ DOMAIN data = {}

----------------------------------------------------------------------------
\* C14. expired_items yields, once each, exactly the stored entries whose age
\* at the sweep is strictly greater than timeout (none while all are within
\* timeout, all once all are past it), and leaves the store as it was.
C14_ExpiredItems ==
    SweepStep("expired_items") =>
        /\ ListsOnce(YieldedKeys(last.yielded), ExpiredKeys(backend, last.before, last.at))
        /\ \A i \in DOMAIN last.yielded :
               last.yielded[i] = cache_load_cache(backend, data, last.yielded[i].key).result
        /\ data = last.before

\* expired_items has yielded the expired one of two entries on a FileCache
C14_Witness ==
    /\ SweepStep("expired_items")
    /\ backend = "FileCache"
    /\ Cardinality(DOMAIN last.before) = 2
    /\ Len(last.yielded) = 1
    /\ last.at - last.yielded[1].created > Timeout

----------------------------------------------------------------------------
\* the keys of the store d whose age at t is in the grace window
\* (timeout - grace, timeout]
WindowKeys(b, d, t, g) ==
    {k \in DOMAIN d : Timeout - g.n < AgeIn(b, d, t, k) /\ AgeIn(b, d, t, k) <= Timeout}

\* the keys of the store d whose age at t is past the start of the grace window
PastThresholdKeys(b, d, t, g) ==
    {k \in DOMAIN d : Timeout - g.n < AgeIn(b, d, t, k)}

\* C15 as claimed. need_refresh_items yields exactly the stored entries whose
\* age is inside the grace window, timeout - grace < age <= timeout; when grace
\* is absent it yields nothing.
C15_Claimed ==
    SweepStep("need_refresh_items") =>
        IF grace = None THEN last.yielded = <<>>
        ELSE ListsOnce(YieldedKeys(last.yielded),
                       WindowKeys(backend, last.before, last.at, grace))

\* C15. need_refresh_items yields, once each, exactly the stored entries whose
\* age is greater than timeout - grace, the expired ones among them; when grace
\* is absent or zero it yields nothing.
C15_NeedRefreshItems ==
    SweepStep("need_refresh_items") =>
        IF grace = None \/ grace = PyInt(0) THEN last.yielded = <<>>
        ELSE ListsOnce(YieldedKeys(last.yielded),
                       PastThresholdKeys(backend, last.before, last.at, grace))

\* need_refresh_items has yielded an expired entry and left out a fresh one
C15_Witness ==
    /\ SweepStep("need_refresh_items")
    /\ Cardinality(DOMAIN last.before) = 2
    /\ Len(last.yielded) = 1
    /\ last.at - last.yielded[1].created > Timeout

----------------------------------------------------------------------------
\* C16. refresh_cache(fn), fn a plain function, calls fn once for each entry
\* need_refresh_items yields, with the args and kwargs the entry was stored
\* with, and leaves the store as it was.
C16_RefreshCache ==
    SweepStep("refresh_cache") =>
        /\ Len(last.called) = Len(last.yielded)
        /\ \A i \in DOMAIN last.called :
               /\ last.called[i].args = TestArgs
               /\ \E kwargs \in SweepKwargs :
                      /\ last.called[i].kwargs = AsDict(kwargs)
                      /\ key_from_args(TestArgs, kwargs).key = last.yielded[i].key
        /\ data = last.before

\* refresh_cache has called fn for each of two entries
C16_Witness ==
    /\ SweepStep("refresh_cache")
    /\ Len(last.yielded) = 2
    /\ Len(last.called) = 2

----------------------------------------------------------------------------
\* caller c has returned from an invocation in which it recomputed
Recomputed(c) == calls[c].pc = "done" /\ calls[c].recompute

\* C17. Race on one key.  Callers that both decide to recompute both call fn
\* and both call update_cache; each returns the value it computed itself; the
\* entry in the store is the one the latest update_cache wrote; the key is
\* never left without an entry, nor with an entry that is neither caller's.
C17_RaceLastWriteWins ==
    /\ \A c \in Callers :
           Recomputed(c) =>
               /\ calls[c].ret = calls[c].val
               /\ Count([i \in DOMAIN calls[c].log |-> [op |-> calls[c].log[i]]], "fn") = 1
               /\ Count([i \in DOMAIN calls[c].log |-> [op |-> calls[c].log[i]]],
                        "update_cache") = 1
               /\ calls[c].at.key \in DOMAIN data
               /\ \E w \in Callers :
                      /\ Recomputed(w)
                      /\ data[calls[c].at.key] = calls[w].new
    /\ (last.op = "update_cache" /\ last.caller \in Callers) =>
           data[last.key] = calls[last.caller].new

\* both callers recomputed the same key and computed different values at
\* different instants; the store holds the entry of the one that wrote last
C17_Witness ==
    /\ \A c \in Callers : Recomputed(c)
    /\ calls["a"].val # calls["b"].val
    /\ calls["a"].new.created # calls["b"].new.created
    /\ last.op = "update_cache"
    /\ last.caller = "a"
    /\ data[last.key] = calls["a"].new
    /\ calls["b"].ret = calls["b"].val

----------------------------------------------------------------------------
\* a load_cache(key) that directly follows a successful update_cache(key, cache)
\* on a provided backend
LoadAfterUpdate ==
    /\ BackendStep(last, "update_cache")
    /\ last.raised = ""
    /\ last'.op = "load_cache"
    /\ last'.key = last.key

JsonNative(x) == x.ty \in {"int", "str", "bool", "NoneType"}

----------------------------------------------------------------------------
\* C19. exists_cache agrees with the store: on every provided backend
\* exists_cache(key) is true if and only if load_cache(key) returns an entry.
C19_ExistsAgrees ==
    BackendStep(last, "exists_cache") =>
        /\ last.raised = ""
        /\ last.result = TRUE <=>
               /\ cache_load_cache(backend, data, last.key).raised = ""
               /\ cache_load_cache(backend, data, last.key).result # None

----------------------------------------------------------------------------
BackendOperations ==
    {"update_cache", "load_cache", "exists_cache", "delete_cache", "keys"}

\* a step that called a backend operation of a bare CacheBase
BaseStep == backend = "CacheBase" /\ last.op \in BackendOperations

\* a CACHE or RECACHE call of a function wrapped by a bare CacheBase
BaseCacheCall == backend = "CacheBase" /\ IsCall /\ last.mode \in {CACHE, RECACHE}

\* C20 as claimed. Each of the five backend operations of the abstract
\* CacheBase fails with NotImplementedError; a CACHE-mode call through a bare
\* CacheBase fails at load_cache before fn is called.
C20_Claimed ==
    /\ BaseStep => last.raised = "NotImplementedError"
    /\ BaseCacheCall =>
           /\ last.outcome = "raise"
           /\ last.error = "load_cache"
           /\ Ops(last.log) = <<"load_cache">>

\* C20. Each of the five backend operations of the abstract CacheBase fails
\* at once with Exception("Not implemented"), an Exception that is not a
\* NotImplementedError, and leaves the store alone; a CACHE-mode call through a
\* bare CacheBase fails at its one load_cache, before fn is called.
C20_NotImplemented ==
    /\ BaseStep =>
           /\ last.raised = "Exception"
           /\ last.result = None
           /\ DOMAIN data = {}
    /\ BaseCacheCall =>
           /\ last.outcome = "raise"
           /\ last.error = "load_cache"
           /\ Ops(last.log) = <<"load_cache">>
           /\ last.called = None
           /\ last.ret = None
           /\ DOMAIN data = {}

\* a CACHE call through a bare CacheBase has failed at load_cache
C20_Witness ==
    /\ BaseCacheCall
    /\ last.mode = CACHE
    /\ last.error = "load_cache"

----------------------------------------------------------------------------
\* C21. Stored-entry invariant.  After any sequence of wrapped calls in any
\* mode, sweeps and deletes, every entry e the store holds under a key k has
\* e.key = k, k is the key derived from e.args and e.kwargs, e.kwargs holds none
\* of the control flags, and e.created is not later than the clock.  (The store
\* maps a key to one entry: it holds at most one entry per key.)
C21_StoredEntries ==
    \A k \in DOMAIN data :
        /\ data[k].key = k
        /\ key_from_args(Items(data[k].args), KwSeq(data[k].kwargs)).key = k
        /\ DOMAIN data[k].kwargs \cap ControlFlags = {}
        /\ data[k].created <= now

\* two entries are stored, one just written by a call that set _recache, the
\* other created earlier
C21_Witness ==
    /\ IsCall
    /\ "_recache" \in FlagsSet(last.kwargs)
    /\ last.wrote # None
    /\ Cardinality(DOMAIN data) = 2
    /\ \E k \in DOMAIN data : data[k].created < now

----------------------------------------------------------------------------
\* a call in CACHE or RECACHE mode that returned a value
ServingCall == IsCall /\ last.mode \in {CACHE, RECACHE} /\ last.outcome = "return"

\* C22. Staleness bound.  The value a CACHE-mode or RECACHE-mode call returns
\* is either computed by fn during that call, or the value of the stored entry
\* it read, whose age at the call is <= timeout and, for a RECACHE call with
\* grace set, <= timeout - grace: a value older than timeout is never served.
C22_StalenessBound ==
    ServingCall =>
        \/ /\ last.called # None
           /\ last.ret = stored_value(last.called.result, binary)
        \/ /\ last.called = None
           /\ last.cached # None
           /\ last.ret = last.cached.value
           /\ data[last.key] = last.cached
           /\ AgeRead <= Timeout
           /\ (last.mode = RECACHE /\ GraceSet) => AgeRead <= Timeout - grace.n

\* a CACHE-mode call has served an entry of age exactly timeout
C22_Witness ==
    /\ ServingCall
    /\ last.mode = CACHE
    /\ last.called = None
    /\ AgeRead = Timeout

----------------------------------------------------------------------------
\* the entries under the keys other than key are the same in d and e
SameElsewhere(d, e, key) ==
    /\ DOMAIN d \ {key} = DOMAIN e \ {key}
    /\ \A k \in DOMAIN d \ {key} : d[k] = e[k]

\* C23. Frame of a wrapped call.  An invocation that serves the cached value
\* leaves the whole store unchanged, the created of the entry it read included;
\* an invocation that recomputes changes the entry under its own key only.
C23_Frame ==
    [][last'.op = "call" =>
          /\ (last'.called = None /\ last'.outcome = "return") =>
                 /\ data' = data
                 /\ data'[last'.key].created = last'.cached.created
          /\ last'.called # None =>
                 /\ SameElsewhere(data, data', last'.key)
                 /\ last'.mode # NOCACHE => data'[last'.key] = last'.wrote]_vars

\* an expired entry has been recomputed while another key has an entry
C23_Witness ==
    /\ IsCall
    /\ last.had = "stale"
    /\ last.wrote # None
    /\ Cardinality(DOMAIN data) = 2

----------------------------------------------------------------------------
\* what load_cache returns for each key of the store d of a cache of class b
Loaded(b, d) == [k \in DOMAIN d |-> cache_load_cache(b, d, k).result]

\* a call of the wrapped function at the instant t, with the arguments of the
\* entry stored under key and the control flags given, would call fn
WouldRecompute(b, d, t, g, bin, key, flags) ==
    LET entry == Loaded(b, d)[key]
        r == wrapper(Loaded(b, d), t, t, g, bin, Items(entry.args),
                     KwSeq(entry.kwargs) \o flags, StoreFnReturn, EnvOk)
    IN  r.obs.key = key /\ r.obs.called # None

Yielded(items, key) == \E i \in DOMAIN items : items[i].key = key

\* C24. The sweeps and the wrapper agree on freshness.  expired_items yields a
\* stored entry if and only if a CACHE-mode call for its key at that instant
\* would recompute; with grace set, need_refresh_items yields it if and only if
\* a RECACHE-mode call for its key would recompute, and every entry
\* expired_items yields is also yielded by need_refresh_items.
C24_SweepsAgree ==
    /\ SweepStep("expired_items") =>
           \A k \in DOMAIN last.before :
               /\ Yielded(last.yielded, k) <=>
                      WouldRecompute(backend, last.before, last.at, grace, binary, k, <<>>)
               /\ (GraceSet /\ Yielded(last.yielded, k)) =>
                      Yielded(need_refresh_items(backend, last.before, last.at, grace,
                                                 last.order), k)
    /\ (SweepStep("need_refresh_items") /\ GraceSet) =>
           \A k \in DOMAIN last.before :
               Yielded(last.yielded, k) <=>
                   WouldRecompute(backend, last.before, last.at, grace, binary, k,
                                  <<Flag("_recache", TRUE)>>)

\* with grace set, need_refresh_items has yielded the one of two entries that
\* is inside the grace window, which a RECACHE call would recompute and a CACHE
\* call would serve
C24_Witness ==
    /\ SweepStep("need_refresh_items")
    /\ GraceSet
    /\ Cardinality(DOMAIN last.before) = 2
    /\ Len(last.yielded) = 1
    /\ last.at - last.yielded[1].created <= Timeout
    /\ WouldRecompute(backend, last.before, last.at, grace, binary,
                      last.yielded[1].key, <<Flag("_recache", TRUE)>>)
    /\ ~WouldRecompute(backend, last.before, last.at, grace, binary,
                       last.yielded[1].key, <<>>)

----------------------------------------------------------------------------
\* C25. Refreshing through the wrapper really refreshes.  When refresh_cache
\* is given the wrapped function, every entry need_refresh_items yielded is
\* recomputed and stored again with a new created, so that right after it,
\* the clock unchanged, need_refresh_items and expired_items yield nothing and
\* delete_expired removes no entry.  (Stated for a cache with grace set, as the
\* one of the tests: without grace refresh_cache does nothing.)
C25_RefreshThroughWrapper ==
    (SweepStep("refresh_cache") /\ GraceSet) =>
        /\ Len(last.called) = Len(last.yielded)
        /\ \A i \in DOMAIN last.called :
               /\ last.called[i].key = last.yielded[i].key
               /\ last.called[i].called # None
               /\ last.called[i].wrote # None
               /\ data[last.called[i].key] = last.called[i].wrote
               /\ data[last.called[i].key].created = last.at
        /\ \A order \in Orders(DOMAIN data) :
               /\ need_refresh_items(backend, data, now, grace, order) = <<>>
               /\ expired_items(backend, data, now, order) = <<>>
               /\ delete_expired(backend, data, now, order).data = data

----------------------------------------------------------------------------
\* the sweep in progress, if any
Sweep == calls["sweep"]

\* C26. Sweeps tolerate a stale key listing.  If a key of the listing has no
\* entry by the time the sweep comes to it, having been removed by a concurrent
\* delete, expired_items, need_refresh_items and delete_expired skip that key
\* and complete without error.
C26_StaleListing ==
    (Sweep.pc # "idle" /\ Sweep.stale) => Sweep.pc # "raised"

----------------------------------------------------------------------------
\* load_cache(key) returns an entry
Loadable(b, d, key) ==
    /\ cache_load_cache(b, d, key).raised = ""
    /\ cache_load_cache(b, d, key).result # None

\* C27. Enumerated keys are loadable.  On every provided backend, after any
\* sequence of update_cache and delete_cache, keys() yields exactly the keys
\* that have a stored entry, in the form load_cache accepts: for every key k
\* it yields, load_cache(k) returns an entry with entry.key = k.
C27_KeysLoadable ==
    BackendStep(last, "keys") =>
        /\ last.raised = ""
        /\ last.result = {k \in ProbedKeys : Loadable(backend, data, k)}
        /\ \A k \in last.result : cache_load_cache(backend, data, k).result.key = k

----------------------------------------------------------------------------
\* str(x) of each positional argument, in order
StrForms(args) == [i \in DOMAIN args |-> Str(args[i])]

\* a call that was served the stored value
Hit == IsCall /\ last.outcome = "return" /\ last.mode # NOCACHE /\ last.called = None

\* C28. No cross-argument hits with the default key function.  Calls whose
\* stripped arguments differ, in the sequence of the positional arguments'
\* string forms or in the keyword names or values, get different keys: the
\* value a call is served was stored by a call with the same positional
\* arguments and the same stripped keyword arguments.
C28_NoCrossHits ==
    /\ IsCall =>
           \A c \in KeyCalls :
               key_from_args(c.args, c.kwargs).key = last.key =>
                   /\ StrForms(c.args) = StrForms(last.args)
                   /\ AsDict(strip_kwargs(c.kwargs)) = AsDict(strip_kwargs(last.kwargs))
    /\ Hit =>
           /\ StrForms(last.cached.args) = StrForms(last.args)
           /\ last.cached.kwargs = AsDict(strip_kwargs(last.kwargs))

----------------------------------------------------------------------------
\* the step is an update_cache of a caller in the wrapper
RaceWrite == last'.op = "update_cache" /\ last'.caller \in Callers

\* the step replaces the entry under its key by one with an earlier created
CreatedDecreases ==
    /\ last'.key \in DOMAIN data
    /\ data'[last'.key].created < data[last'.key].created

\* C29 as claimed. created is monotone per key: under a non-decreasing clock
\* and any interleaving of concurrent wrapped calls on one key, the created of
\* the entry stored under the key never decreases from one write to the next.
C29_Claimed ==
    [][RaceWrite => ~CreatedDecreases]_vars

\* C29. Under a non-decreasing clock the entry a write stores has the created
\* its writer read after its fn returned, which is not later than the clock;
\* from one write to the next the created under a key decreases only when the
\* entry replaced is that of a concurrent call which read the clock later than
\* this writer and wrote before it: the last write wins, with the earlier
\* created.
C29_CreatedOfLastWriter ==
    [][RaceWrite =>
          /\ data'[last'.key] = calls[last'.caller].new
          /\ data'[last'.key].created <= now'
          /\ CreatedDecreases =>
                 \E w \in Callers \ {last'.caller} :
                     /\ Recomputed(w)
                     /\ data[last'.key] = calls[w].new
                     /\ calls[w].new.created > calls[last'.caller].new.created]_vars

\* caller a, whose fn returned first, has written last: the store holds its
\* entry, created before the entry of caller b that it replaced
C29_Witness ==
    /\ last.op = "update_cache"
    /\ last.caller = "a"
    /\ Recomputed("a") /\ Recomputed("b")
    /\ data[last.key] = calls["a"].new
    /\ calls["b"].new.created > calls["a"].new.created

====
